---- MODULE Spec2Model ----
(***************************************************************************)
(* Model of the go-echowr registration layer (package server).             *)
(*                                                                         *)
(* Strings that the code inspects character by character (paths, group     *)
(* names, fixed prefixes) are sequences of one-character strings, so that  *)
(* concatenation, strings.TrimSpace and strings.Contains are computed.     *)
(* Method names, handlers and middlewares are compared only for equality   *)
(* and are plain strings.                                                  *)
(*                                                                         *)
(* Three specifications:                                                     *)
(*   SpecRouters  the caller-side API: the RegisterRouters builder and     *)
(*                Kind.String;                                             *)
(*   Spec         Server.RegisterRouters called repeatedly on one engine   *)
(*                with a builder value produced by the builder operations; *)
(*   SpecStart    Server.Start, the goroutine it starts, Close, Shutdown   *)
(*                and GracefulShutdown.                                    *)
(***************************************************************************)
EXTENDS Integers, Sequences, FiniteSets, TLC

VARIABLES
    rr,      \* the *RegisterRouters value: [PathFixed, Routers]
    out,     \* the last caller-side operation, its arguments and its result
    echo,    \* the *echo.Echo of the Server: [middleware, routes]
    scope,   \* the engine value `grp` resolved by the last RegisterRouters call
    ret,     \* the error returned by the last RegisterRouters call
    calls,   \* history of RegisterRouters calls
    snap,    \* the slice an earlier GetAllRouters call returned, held by the caller
    srv      \* the Server's address, its serving goroutines, its logger

vars == <<rr, out, echo, scope, ret, calls, snap, srv>>

----------------------------------------------------------------------------
(* Bounds *)

MaxRouters == 2      \* entries appended to one builder value
MaxCalls == 2        \* RegisterRouters calls on one Server
MaxStarts == 2       \* Start calls on one Server

----------------------------------------------------------------------------
(* Strings *)

Str_root == <<"r", "o", "o", "t">>
Str_v1 == <<"v", "1">>
Str_v2 == <<"v", "2">>
Str_v3 == <<"v", "3">>
Str_dev == <<"d", "e", "v">>
Str_api == <<"a", "p", "i">>
Str_docs == <<"d", "o", "c", "s">>

WhiteSpace == {" ", "\t"}

RECURSIVE TrimLeft(_)
TrimLeft(s) ==
    IF s # <<>> /\ Head(s) \in WhiteSpace THEN TrimLeft(Tail(s)) ELSE s

RECURSIVE TrimRight(_)
TrimRight(s) ==
    IF s # <<>> /\ s[Len(s)] \in WhiteSpace
    THEN TrimRight(SubSeq(s, 1, Len(s) - 1))
    ELSE s

\* strings.TrimSpace: leading and trailing white space removed
TrimSpace(s) == TrimRight(TrimLeft(s))

\* strings.Contains(s, substr)
Contains(s, substr) ==
    \E i \in 1..(Len(s) + 1) :
        /\ i + Len(substr) - 1 <= Len(s)
        /\ SubSeq(s, i, i + Len(substr) - 1) = substr

\* strings.HasPrefix, used to state properties
HasPrefix(s, p) == Len(p) <= Len(s) /\ SubSeq(s, 1, Len(p)) = p

----------------------------------------------------------------------------
(* Kind *)

ROOT == 0
V1 == 1
V2 == 2
V3 == 3
DEV == 4
API == 5
DOCS == 6

Kinds == ROOT..DOCS

KindNames == <<Str_root, Str_v1, Str_v2, Str_v3, Str_dev, Str_api, Str_docs>>

\* The outcome of a call that does not return: a run-time panic
Panic == <<"panic: runtime error: index out of range">>

\* Duplicate name in the table (mutant of KindString)
KindStringDup(k) ==
    IF k \in 0..(Len(KindNames) - 1)
    THEN (IF k = V3 THEN Str_v2 ELSE KindNames[k + 1])
    ELSE Panic

\* The table indexed from one instead of zero (mutant of KindString)
KindStringOffByOne(k) ==
    IF k \in 1..(Len(KindNames) - 1) THEN KindNames[k] ELSE Panic

\* Kind.String: indexes a seven-element array literal with k; an index outside
\* 0..6 is a run-time panic
KindString(k) ==
    IF k \in 0..(Len(KindNames) - 1) THEN KindNames[k + 1] ELSE Panic

----------------------------------------------------------------------------
(* RegisterRouter / RegisterRouters (the builder) *)

RegisterRouter(path, methods) == [Path |-> path, Methods |-> methods]

NewRouters == [PathFixed |-> <<>>, Routers |-> <<>>]

\* The path trimmed and prefixed as AddRouterFx does (mutant of AddRouter)
AddRouterAsFx(r, path, methods) ==
    [r EXCEPT !.Routers =
        Append(@, RegisterRouter(r.PathFixed \o TrimSpace(path), methods))]

AddRouter(r, path, methods) ==
    [r EXCEPT !.Routers = Append(@, RegisterRouter(path, methods))]

\* The fixed prefix is trimmed too (mutant of FxPath)
FxPathTrimAll(r, params) == TrimSpace(r.PathFixed \o params)

\* The path computed by AddRouterFx
FxPath(r, params) ==
    LET path == TrimSpace(params) IN
    IF Len(path) > 0 THEN r.PathFixed \o path ELSE r.PathFixed

AddRouterFx(r, params, methods) ==
    [r EXCEPT !.Routers = Append(@, RegisterRouter(FxPath(r, params), methods))]

GetAllRouters(r) == r.Routers

\* A slice value held by a caller: the backing array it points to (`array`,
\* its elements written so far), its length, and whether the array is still
\* the one r.Routers uses
NoSlice == [taken |-> FALSE, array |-> <<>>, len |-> 0, shared |-> FALSE]
SliceOf(routers) ==
    [taken |-> TRUE, array |-> routers, len |-> Len(routers), shared |-> TRUE]

\* What append(r.Routers, ...) does to a slice returned earlier: with spare
\* capacity the new element is written into the shared array past the old
\* length; without it r.Routers moves to a new array and the old one is left
\* as it is
AppendSeenBy(sl, routers, inplace) ==
    IF sl.taken /\ sl.shared /\ inplace
    THEN [sl EXCEPT !.array = routers]
    ELSE [sl EXCEPT !.shared = FALSE]

RECURSIVE GetRoutersLoop(_, _, _)
GetRoutersLoop(routers, path, acc) ==
    IF routers = <<>> THEN acc
    ELSE GetRoutersLoop(Tail(routers), path,
                        IF Head(routers).Path = path
                        THEN Append(acc, Head(routers)) ELSE acc)

GetRouters(r, path) == GetRoutersLoop(r.Routers, path, <<>>)

\* The prefix matched at the start of the path only (mutant of GetRoutersFxLoop)
RECURSIVE GetRoutersFxLoopAnchored(_, _, _)
GetRoutersFxLoopAnchored(routers, fixed, acc) ==
    IF routers = <<>> THEN acc
    ELSE GetRoutersFxLoopAnchored(Tail(routers), fixed,
                                  IF HasPrefix(Head(routers).Path, fixed)
                                  THEN Append(acc, Head(routers)) ELSE acc)

RECURSIVE GetRoutersFxLoop(_, _, _)
GetRoutersFxLoop(routers, fixed, acc) ==
    IF routers = <<>> THEN acc
    ELSE GetRoutersFxLoop(Tail(routers), fixed,
                          IF Contains(Head(routers).Path, fixed)
                          THEN Append(acc, Head(routers)) ELSE acc)

GetRoutersFx(r) == GetRoutersFxLoop(r.Routers, r.PathFixed, <<>>)

\* Rewrites the entries appended with the old prefix (mutant of SetPathFixed)
SetPathFixedRewrite(r, path) ==
    [PathFixed |-> path,
     Routers |-> [i \in 1..Len(r.Routers) |->
                    IF HasPrefix(r.Routers[i].Path, r.PathFixed)
                    THEN [r.Routers[i] EXCEPT !.Path =
                            path \o SubSeq(@, Len(r.PathFixed) + 1, Len(@))]
                    ELSE r.Routers[i]]]

SetPathFixed(r, path) == [r EXCEPT !.PathFixed = path]

----------------------------------------------------------------------------
(* The engine: *echo.Echo, *echo.Group and the routes bound on them *)

HTTPMethods ==
    {"GET", "POST", "PUT", "DELETE", "PATCH", "HEAD", "CONNECT", "OPTIONS", "TRACE"}

Nil == <<>>
ErrInvalidGroup == <<"invalid group type">>
ErrUnsupportedMethod(method) == <<"unsupported method: %s", method>>
ErrEngineType == <<"engine type not supported">>

\* echo.New(): no middleware, no routes
EchoNew == [middleware |-> <<>>, routes |-> <<>>]

\* The values the `any` engine argument can hold
EngineEcho == [type |-> "Echo", prefix |-> <<>>, middleware |-> <<>>]
EngineNil == [type |-> "nil", prefix |-> <<>>, middleware |-> <<>>]

\* s.echo.Group(prefix): a new group value on every call, with an empty chain
EchoGroup(prefix) == [type |-> "Group", prefix |-> prefix, middleware |-> <<>>]

\* The path under which the engine's router serves a route: a leading "/" is
\* supplied when the path lacks one (Group("v1") + "/test" is served at
\* "/v1/test", Group("docs") + "" at "/docs")
RouterPath(path) ==
    IF path = <<>> THEN <<"/">>
    ELSE IF Head(path) # "/" THEN <<"/">> \o path
    ELSE path

\* The state threaded through one registration: the Echo, the resolved
\* engine value, the value the *RegisterRouters argument points to and the
\* error so far
State(e, grp, routers, err) ==
    [echo |-> e, grp |-> grp, routers |-> routers, err |-> err]

\* Group middlewares handed to the Echo itself (mutant of Use)
UseGlobal(st, middleware) ==
    IF st.grp.type \in {"Group", "Echo"}
    THEN [st EXCEPT !.echo.middleware = Append(@, middleware)]
    ELSE st

\* The Echo's chain replaced instead of extended (mutant of Use)
UseReplace(st, middleware) ==
    CASE st.grp.type = "Group" ->
            [st EXCEPT !.grp.middleware = Append(@, middleware)]
      [] st.grp.type = "Echo" ->
            [st EXCEPT !.echo.middleware = <<middleware>>]
      [] OTHER -> st

\* The Echo's middlewares kept on the resolved scope only, as a group keeps
\* its own (mutant of Use)
UseScoped(st, middleware) ==
    IF st.grp.type \in {"Group", "Echo"}
    THEN [st EXCEPT !.grp.middleware = Append(@, middleware)]
    ELSE st

\* e.Use(middleware) on *echo.Group or *echo.Echo; no case matches otherwise
Use(st, middleware) ==
    CASE st.grp.type = "Group" ->
            [st EXCEPT !.grp.middleware = Append(@, middleware)]
      [] st.grp.type = "Echo" ->
            [st EXCEPT !.echo.middleware = Append(@, middleware)]
      [] OTHER -> st

\* e.GET(path, handler) and its eight siblings: the route is added to the Echo
\* under the scope's prefix, wrapped by the chain the scope has at that moment
\* The route table restarted by every binding (mutant of Add)
AddReset(st, method, path, handler) ==
    [st EXCEPT !.echo.routes =
        <<[Method |-> method,
           Path |-> RouterPath(st.grp.prefix \o path),
           Handler |-> handler,
           Middleware |-> st.grp.middleware]>>]

Add(st, method, path, handler) ==
    [st EXCEPT !.echo.routes =
        Append(@, [Method |-> method,
                   Path |-> RouterPath(st.grp.prefix \o path),
                   Handler |-> handler,
                   Middleware |-> st.grp.middleware])]

\* Method names matched without regard to case (mutant of registerMethod)
registerMethodAnyCase(st, method, path, handler) ==
    LET Upper(m) == IF m = "get" THEN "GET" ELSE m IN
    IF st.grp.type \in {"Group", "Echo"}
    THEN IF Upper(method) \in HTTPMethods
         THEN Add(st, Upper(method), path, handler)
         ELSE [st EXCEPT !.err = ErrUnsupportedMethod(method)]
    ELSE [st EXCEPT !.err = ErrEngineType]

\* The TRACE case missing from both switches (mutant of registerMethod)
registerMethodNoTrace(st, method, path, handler) ==
    IF st.grp.type \in {"Group", "Echo"}
    THEN IF method \in HTTPMethods \ {"TRACE"}
         THEN Add(st, method, path, handler)
         ELSE [st EXCEPT !.err = ErrUnsupportedMethod(method)]
    ELSE [st EXCEPT !.err = ErrEngineType]

registerMethod(st, method, path, handler) ==
    CASE st.grp.type = "Group" ->
            IF method \in HTTPMethods
            THEN Add(st, method, path, handler)
            ELSE [st EXCEPT !.err = ErrUnsupportedMethod(method)]
      [] st.grp.type = "Echo" ->
            IF method \in HTTPMethods
            THEN Add(st, method, path, handler)
            ELSE [st EXCEPT !.err = ErrUnsupportedMethod(method)]
      [] OTHER -> [st EXCEPT !.err = ErrEngineType]

\* The first loop of registerRouters
RECURSIVE UseAll(_, _)
UseAll(st, middlewares) ==
    IF middlewares = <<>> THEN st
    ELSE UseAll(Use(st, Head(middlewares)), Tail(middlewares))

\* The loop left after the first key of the map (mutant of RegisterEntry)
RegisterEntryFirstOnly(st, router, keys) ==
    IF keys = <<>> THEN st
    ELSE registerMethod(st, Head(keys), router.Path, router.Methods[Head(keys)])

\* The inner loop of registerRouters over one entry's map, in the order `keys`
\* the map iteration happens to produce
RECURSIVE RegisterEntry(_, _, _)
RegisterEntry(st, router, keys) ==
    IF keys = <<>> THEN st
    ELSE LET nxt == registerMethod(st, Head(keys), router.Path,
                                   router.Methods[Head(keys)]) IN
         IF nxt.err # Nil THEN nxt
         ELSE RegisterEntry(nxt, router, Tail(keys))

\* The outer loop of registerRouters over GetAllRouters()
RECURSIVE RegisterEntries(_, _, _)
RegisterEntries(st, routers, order) ==
    IF routers = <<>> THEN st
    ELSE LET nxt == RegisterEntry(st, Head(routers), Head(order)) IN
         IF nxt.err # Nil THEN nxt
         ELSE RegisterEntries(nxt, Tail(routers), Tail(order))

\* Routes bound before the middlewares are applied (mutant of registerRouters)
registerRoutersBindFirst(st, routers, middlewares, order) ==
    UseAll(RegisterEntries(st, GetAllRouters(routers), order), middlewares)

\* The entries taken off the caller's value as they are registered (mutant of
\* registerRouters)
registerRoutersDrain(st, routers, middlewares, order) ==
    [RegisterEntries(UseAll(st, middlewares), GetAllRouters(routers), order)
        EXCEPT !.routers.Routers = <<>>]

\* The chains put back when a binding fails (mutant of registerRouters)
registerRoutersRollback(st, routers, middlewares, order) ==
    LET res == RegisterEntries(UseAll(st, middlewares), GetAllRouters(routers), order) IN
    IF res.err # Nil
    THEN [res EXCEPT !.echo.middleware = st.echo.middleware,
                     !.grp.middleware = st.grp.middleware]
    ELSE res

registerRouters(st, routers, middlewares, order) ==
    RegisterEntries(UseAll(st, middlewares), GetAllRouters(routers), order)

\* An unknown group treated as ROOT (mutant of ServerRegisterRouters)
ServerRegisterRoutersDefaultRoot(e, group, routers, middlewares, order) ==
    IF group \in {V1, V2, V3, DEV, API, DOCS}
    THEN registerRouters(State(e, EchoGroup(KindString(group)), routers, Nil),
                         routers, middlewares, order)
    ELSE registerRouters(State(e, EngineEcho, routers, Nil), routers, middlewares, order)

\* Server.RegisterRouters
ServerRegisterRouters(e, group, routers, middlewares, order) ==
    CASE group = ROOT ->
            registerRouters(State(e, EngineEcho, routers, Nil), routers, middlewares, order)
      [] group \in {V1, V2, V3, DEV, API, DOCS} ->
            registerRouters(State(e, EchoGroup(KindString(group)), routers, Nil),
                            routers, middlewares, order)
      [] OTHER -> State(e, EngineNil, routers, ErrInvalidGroup)

\* The orders in which the maps of the entries can be iterated
PermSeqs(S) ==
    {s \in [1..Cardinality(S) -> S] : \A x \in S : \E i \in DOMAIN s : s[i] = x}

Orders(routers) ==
    IF routers = <<>> THEN {<<>>}
    ELSE {o \in [1..Len(routers) ->
                   UNION {PermSeqs(DOMAIN routers[i].Methods) : i \in 1..Len(routers)}] :
            \A i \in 1..Len(routers) : o[i] \in PermSeqs(DOMAIN routers[i].Methods)}

----------------------------------------------------------------------------
(* Inputs *)

P_t == <<"/", "t">>
P_u == <<"/", "u">>
P_a == <<"/", "a">>
P_b == <<"/", "b">>

Handlers == {"h1", "h2"}
Middlewares == {"mA", "mB"}

\* Builder inputs
Prefixes == {<<>>, P_a, <<" ">> \o P_b \o <<" ">>}
Paths == {<<>>, P_t, <<"x">> \o P_a, <<" ">> \o P_a \o <<" ">>}
Params == {<<>>, <<" ">>, P_t, <<" ">> \o P_t \o <<"\t">>, <<"/", " ", "t">>}
MethodMaps == {"GET" :> "h1"}
KindInputs == (ROOT - 1)..(DOCS + 1)

\* Server inputs
Groups == {ROOT - 1, ROOT, V1, V2, DOCS, DOCS + 1}
MiddlewareLists == {<<>>, <<"mA">>, <<"mB">>, <<"mA", "mB">>}

RouterInputs ==
    {NewRouters}
    \cup {AddRouter(NewRouters, P_t, m :> "h1") : m \in HTTPMethods \cup {"get"}}
    \cup {AddRouter(NewRouters, <<>>, "GET" :> "h1"),
          AddRouter(NewRouters, <<"t">>, "GET" :> "h1"),
          AddRouterFx(SetPathFixed(NewRouters, P_a), P_t,
                      ("GET" :> "h1") @@ ("POST" :> "h2")),
          AddRouter(AddRouter(NewRouters, P_t, ("GET" :> "h1") @@ ("get" :> "h2")),
                    P_u, "POST" :> "h1"),
          AddRouter(AddRouter(NewRouters, P_t, "POST" :> "h1"),
                    P_u, "FOO" :> "h1"),
          AddRouter(AddRouter(NewRouters, P_t, "GET" :> "h1"),
                    P_t, "GET" :> "h2")}

----------------------------------------------------------------------------
(* Actions of the builder and of Kind.String *)

NoOut == [op |-> "none", arg |-> <<>>, val |-> <<>>]

CallSetPathFixed(path) ==
    /\ rr' = SetPathFixed(rr, path)
    /\ out' = [op |-> "SetPathFixed", arg |-> path, val |-> <<>>]
    /\ UNCHANGED <<echo, scope, ret, calls, snap, srv>>

CallAddRouter(path, methods) ==
    /\ Len(rr.Routers) < MaxRouters
    /\ rr' = AddRouter(rr, path, methods)
    /\ out' = [op |-> "AddRouter", arg |-> path, val |-> <<>>]
    /\ \E inplace \in BOOLEAN : snap' = AppendSeenBy(snap, rr'.Routers, inplace)
    /\ UNCHANGED <<echo, scope, ret, calls, srv>>

CallAddRouterFx(params, methods) ==
    /\ Len(rr.Routers) < MaxRouters
    /\ rr' = AddRouterFx(rr, params, methods)
    /\ out' = [op |-> "AddRouterFx", arg |-> params, val |-> <<>>]
    /\ \E inplace \in BOOLEAN : snap' = AppendSeenBy(snap, rr'.Routers, inplace)
    /\ UNCHANGED <<echo, scope, ret, calls, srv>>

CallGetAllRouters ==
    /\ out' = [op |-> "GetAllRouters", arg |-> <<>>, val |-> GetAllRouters(rr)]
    /\ snap' = SliceOf(GetAllRouters(rr))
    /\ UNCHANGED <<rr, echo, scope, ret, calls, srv>>

CallGetRouters(path) ==
    /\ out' = [op |-> "GetRouters", arg |-> path, val |-> GetRouters(rr, path)]
    /\ UNCHANGED <<rr, echo, scope, ret, calls, snap, srv>>

CallGetRoutersFx ==
    /\ out' = [op |-> "GetRoutersFx", arg |-> <<>>, val |-> GetRoutersFx(rr)]
    /\ UNCHANGED <<rr, echo, scope, ret, calls, snap, srv>>

CallKindString(k) ==
    /\ out' = [op |-> "String", arg |-> <<k>>, val |-> KindString(k)]
    /\ UNCHANGED <<rr, echo, scope, ret, calls, snap, srv>>

----------------------------------------------------------------------------
(* Action of the Server *)

CallRegisterRouters(group, middlewares, order) ==
    /\ Len(calls) < MaxCalls
    /\ LET res == ServerRegisterRouters(echo, group, rr, middlewares, order) IN
       /\ echo' = res.echo
       /\ rr' = res.routers
       /\ scope' = res.grp
       /\ ret' = res.err
       /\ calls' = Append(calls, [group |-> group,
                                  middlewares |-> middlewares,
                                  lo |-> Len(echo.routes),
                                  hi |-> Len(res.echo.routes),
                                  before |-> echo.middleware,
                                  err |-> res.err])
    /\ UNCHANGED <<out, snap, srv>>

----------------------------------------------------------------------------
(* The Server's life cycle: Start, its goroutine, Close, Shutdown *)

\* http.ErrServerClosed, and an error of echo.Start that is not it
ErrServerClosed == <<"http: Server closed">>
ErrListen == <<"listen tcp: bind: address already in use">>

GracefulTimeout == 3

\* NewServer(WithHost(host), WithPort(port)): nothing started, nothing logged
NewServer(host, port) ==
    [host |-> host, port |-> port, routines |-> <<>>, closed |-> FALSE,
     deadline |-> <<>>, log |-> <<>>, exited |-> FALSE]

\* The address Start hands to echo.Start
StartHost(sv) ==
    IF Len(sv.port) = 0 THEN sv.host ELSE sv.host \o <<":">> \o sv.port

\* Server.Start: starts the goroutine and returns
Start(sv) ==
    [sv EXCEPT !.routines =
        Append(@, [addr |-> StartHost(sv), status |-> "serving", err |-> Nil])]

\* Every error of echo.Start logged as fatal (mutant of ServeReturned)
ServeReturnedAlwaysFatal(sv, i, err) ==
    LET done == [sv EXCEPT !.routines[i].status = "done", !.routines[i].err = err] IN
    IF err # Nil
    THEN [done EXCEPT !.log = Append(@, <<"FATAL", err>>), !.exited = TRUE]
    ELSE done

\* The goroutine of Start once s.echo.Start(host) has returned err: an error
\* other than http.ErrServerClosed goes to s.echo.Logger.Fatal, which logs it
\* and ends the process
ServeReturned(sv, i, err) ==
    LET done == [sv EXCEPT !.routines[i].status = "done", !.routines[i].err = err] IN
    IF err # Nil /\ err # ErrServerClosed
    THEN [done EXCEPT !.log = Append(@, <<"FATAL", err>>), !.exited = TRUE]
    ELSE done

\* The errors echo.Start can return: the server-closed error once Close or
\* Shutdown was called, a listen error at any time
ServeOutcomes(sv) ==
    {ErrListen} \cup (IF sv.closed THEN {ErrServerClosed} ELSE {})

Close(sv) == [sv EXCEPT !.closed = TRUE]
Shutdown(sv, ctx) == [sv EXCEPT !.closed = TRUE, !.deadline = <<ctx>>]
GracefulShutdown(sv) == Shutdown(sv, GracefulTimeout)

Hosts == {<<>>, <<"h">>}
Ports == {<<>>, <<"8">>}
Deadlines == {1, 5}

CallStart ==
    /\ ~srv.exited
    /\ Len(srv.routines) < MaxStarts
    /\ srv' = Start(srv)
    /\ UNCHANGED <<rr, out, echo, scope, ret, calls, snap>>

ServeReturn(i, err) ==
    /\ ~srv.exited
    /\ srv.routines[i].status = "serving"
    /\ err \in ServeOutcomes(srv)
    /\ srv' = ServeReturned(srv, i, err)
    /\ UNCHANGED <<rr, out, echo, scope, ret, calls, snap>>

CallClose ==
    /\ ~srv.exited
    /\ srv' = Close(srv)
    /\ UNCHANGED <<rr, out, echo, scope, ret, calls, snap>>

CallShutdown(ctx) ==
    /\ ~srv.exited
    /\ srv' = Shutdown(srv, ctx)
    /\ UNCHANGED <<rr, out, echo, scope, ret, calls, snap>>

CallGracefulShutdown ==
    /\ ~srv.exited
    /\ srv' = GracefulShutdown(srv)
    /\ UNCHANGED <<rr, out, echo, scope, ret, calls, snap>>

----------------------------------------------------------------------------
(* Specifications *)

InitEngine ==
    /\ echo = EchoNew
    /\ scope = EngineNil
    /\ ret = Nil
    /\ calls = <<>>

InitRouters ==
    /\ rr = NewRouters
    /\ out = NoOut
    /\ snap = NoSlice
    /\ srv = NewServer(<<>>, <<>>)
    /\ InitEngine

NextRouters ==
    \/ \E path \in Prefixes : CallSetPathFixed(path)
    \/ \E path \in Paths, methods \in MethodMaps : CallAddRouter(path, methods)
    \/ \E params \in Params, methods \in MethodMaps : CallAddRouterFx(params, methods)
    \/ CallGetAllRouters
    \/ \E path \in Paths : CallGetRouters(path)
    \/ CallGetRoutersFx
    \/ \E k \in KindInputs : CallKindString(k)

SpecRouters == InitRouters /\ [][NextRouters]_vars

Init ==
    /\ rr \in RouterInputs
    /\ out = NoOut
    /\ snap = NoSlice
    /\ srv = NewServer(<<>>, <<>>)
    /\ InitEngine

Next ==
    \E group \in Groups, middlewares \in MiddlewareLists, order \in Orders(rr.Routers) :
        CallRegisterRouters(group, middlewares, order)

Spec == Init /\ [][Next]_vars

InitStart ==
    /\ rr = NewRouters
    /\ out = NoOut
    /\ snap = NoSlice
    /\ \E host \in Hosts, port \in Ports : srv = NewServer(host, port)
    /\ InitEngine

NextStart ==
    \/ CallStart
    \/ \E i \in DOMAIN srv.routines, err \in {ErrListen, ErrServerClosed} :
          ServeReturn(i, err)
    \/ CallClose
    \/ \E ctx \in Deadlines : CallShutdown(ctx)
    \/ CallGracefulShutdown

SpecStart == InitStart /\ [][NextStart]_vars

----------------------------------------------------------------------------
(* Vocabulary of the properties *)

Range(s) == {s[i] : i \in DOMAIN s}
Last(s) == s[Len(s)]

\* The routes bound by the i-th RegisterRouters call
BoundBy(i) == SubSeq(echo.routes, calls[i].lo + 1, calls[i].hi)

\* The chain a request served by route r passes through, outermost first: the
\* Echo's own chain, then the chain wrapped around the route when it was added
RequestChain(r) == echo.middleware \o r.Middleware

\* The chain carried by the scope the last call resolved
ScopeChain == IF scope.type = "Echo" THEN echo.middleware ELSE scope.middleware

\* The middleware lists of the first k calls made for group g, concatenated
RECURSIVE CumChain(_, _)
CumChain(g, k) ==
    IF k = 0 THEN <<>>
    ELSE CumChain(g, k - 1) \o
         (IF calls[k].group = g THEN calls[k].middlewares ELSE <<>>)

AllKeys == UNION {DOMAIN rr.Routers[n].Methods : n \in DOMAIN rr.Routers}
BadEntries == {n \in DOMAIN rr.Routers : ~(DOMAIN rr.Routers[n].Methods \subseteq HTTPMethods)}
FirstBad == CHOOSE n \in BadEntries : \A k \in BadEntries : n <= k

\* Route r is the binding of method m of entry n at path `path`
Binds(r, n, m, path) ==
    /\ r.Method = m
    /\ r.Handler = rr.Routers[n].Methods[m]
    /\ r.Path = path

\* Effective paths as the claim C2 states them
ClaimedPath(group, p) ==
    IF group = ROOT THEN p ELSE <<"/">> \o KindNames[group + 1] \o p

\* Effective paths with the leading "/" the router supplies under ROOT
ServedPath(group, p) ==
    IF group = ROOT
    THEN (IF HasPrefix(p, <<"/">>) THEN p ELSE <<"/">> \o p)
    ELSE <<"/">> \o KindNames[group + 1] \o p

IsRegisterStep == Len(calls') = Len(calls) + 1

----------------------------------------------------------------------------
(* C1 *)

\* C1: a RegisterRouters call with a group outside ROOT..DOCS returns the
\* invalid-group error and leaves the Echo (its routes, its chain and the
\* chains wrapped around its routes) exactly as it was.
C1_InvalidGroupNoEffect ==
    [][(IsRegisterStep /\ ~(Last(calls').group \in Kinds))
          => (ret' = ErrInvalidGroup /\ ret' # Nil /\ echo' = echo)]_vars

\* An invalid-group call with middlewares and a non-empty spec, made on an
\* engine that already has routes
C1_Witness ==
    /\ Len(calls) = 2
    /\ calls[1].hi > calls[1].lo
    /\ ~(calls[2].group \in Kinds)
    /\ calls[2].middlewares # <<>>
    /\ rr.Routers # <<>>
    /\ ret = ErrInvalidGroup

----------------------------------------------------------------------------
(* C2 *)

\* The routes bound by call i are exactly the pairs of the entries, entry n
\* at the path where[n]
BoundAt(i, where) ==
    /\ \A n \in DOMAIN rr.Routers : \A m \in DOMAIN rr.Routers[n].Methods :
          \E j \in DOMAIN BoundBy(i) : Binds(BoundBy(i)[j], n, m, where[n])
    /\ \A j \in DOMAIN BoundBy(i) :
          \E n \in DOMAIN rr.Routers : \E m \in DOMAIN rr.Routers[n].Methods :
              Binds(BoundBy(i)[j], n, m, where[n])

\* C2 as stated: after a successful call every entry with path p is bound at
\* p itself under ROOT and at "/" + name(group) + p under V1..DOCS, and
\* nowhere else.
C2_Original ==
    \A i \in DOMAIN calls :
        (calls[i].group \in Kinds /\ calls[i].err = Nil) => 
            BoundAt(i, [n \in DOMAIN rr.Routers |->
                          ClaimedPath(calls[i].group, rr.Routers[n].Path)])

\* C2 amended: under ROOT an entry with path p is bound at p when p begins
\* with "/" and at "/" + p otherwise (the empty path at "/"); under V1..DOCS
\* it is bound at "/" + name(group) + p; it is bound nowhere else.
C2_EffectivePath ==
    \A i \in DOMAIN calls :
        (calls[i].group \in Kinds /\ calls[i].err = Nil) => 
            BoundAt(i, [n \in DOMAIN rr.Routers |->
                          ServedPath(calls[i].group, rr.Routers[n].Path)])

\* The empty path registered under DOCS: bound at "/docs"
C2_Witness ==
    /\ Len(calls) >= 1
    /\ calls[1].group = DOCS
    /\ calls[1].err = Nil
    /\ Len(rr.Routers) = 1
    /\ rr.Routers[1].Path = <<>>
    /\ Len(BoundBy(1)) = 1
    /\ BoundBy(1)[1].Path = <<"/">> \o Str_docs

----------------------------------------------------------------------------
(* C3 *)

NumPairs(n) == Cardinality(DOMAIN rr.Routers[n].Methods)

RECURSIVE SumPairs(_)
SumPairs(n) == IF n = 0 THEN 0 ELSE SumPairs(n - 1) + NumPairs(n)

\* C3: when every method key of the spec is one of the nine supported names,
\* a call on a valid group returns nil and has bound one route per (method,
\* handler) pair of every entry, with that entry's path under the scope and
\* that handler, for ROOT and for a group alike.
C3_AllPairsBound ==
    \A i \in DOMAIN calls :
        (calls[i].group \in Kinds /\ AllKeys \subseteq HTTPMethods) =>
            /\ calls[i].err = Nil
            /\ Len(BoundBy(i)) = SumPairs(Len(rr.Routers))
            /\ \A n \in DOMAIN rr.Routers : \A m \in DOMAIN rr.Routers[n].Methods :
                  \E j \in DOMAIN BoundBy(i) :
                      /\ BoundBy(i)[j].Method = m
                      /\ BoundBy(i)[j].Handler = rr.Routers[n].Methods[m]
                      /\ BoundBy(i)[j].Path =
                            ServedPath(calls[i].group, rr.Routers[n].Path)

\* The same two-method spec registered under ROOT and then under a group
C3_Witness ==
    /\ Len(calls) = 2
    /\ calls[1].group = ROOT
    /\ calls[2].group = V1
    /\ ret = Nil
    /\ calls[1].hi - calls[1].lo = 2
    /\ calls[2].hi - calls[2].lo = 2

----------------------------------------------------------------------------
(* C4 *)

\* C4: when the spec has a method key outside the nine supported names
\* (compared exactly, so "get" is one), a call on a valid group returns the
\* unsupported-method error for a key of the first entry that has such a key;
\* every pair of the entries before that entry is bound, only supported pairs
\* of that entry may be bound, no pair of a later entry is bound, and what the
\* call bound stays in the route table.
C4_UnsupportedAborts ==
    \A i \in DOMAIN calls :
        (calls[i].group \in Kinds /\ BadEntries # {}) =>
            /\ \E k \in DOMAIN rr.Routers[FirstBad].Methods \ HTTPMethods :
                  calls[i].err = ErrUnsupportedMethod(k)
            /\ Len(echo.routes) >= calls[i].hi
            /\ \A n \in 1..(FirstBad - 1) : \A m \in DOMAIN rr.Routers[n].Methods :
                  \E j \in DOMAIN BoundBy(i) :
                      Binds(BoundBy(i)[j], n, m,
                            ServedPath(calls[i].group, rr.Routers[n].Path))
            /\ \A j \in DOMAIN BoundBy(i) :
                  \E n \in 1..FirstBad :
                      \E m \in DOMAIN rr.Routers[n].Methods \cap HTTPMethods :
                          Binds(BoundBy(i)[j], n, m,
                                ServedPath(calls[i].group, rr.Routers[n].Path))
            /\ Len(BoundBy(i)) <= SumPairs(FirstBad) - 1

\* A failed call that had bound a route before it reached the bad key, followed
\* by another call: the route of the failed call is still there
C4_Witness ==
    /\ Len(calls) = 2
    /\ calls[1].group \in Kinds
    /\ calls[1].err # Nil
    /\ calls[1].hi > calls[1].lo
    /\ Len(rr.Routers) = 2
    /\ "get" \in DOMAIN rr.Routers[1].Methods
    /\ Len(echo.routes) >= calls[1].hi

----------------------------------------------------------------------------
(* C5 *)

NonRoot == Kinds \ {ROOT}

\* C5 as stated: a route registered under a non-root group G is reached
\* through exactly the middlewares given to G's registration, and through no
\* middleware passed only to calls for another non-root group.
C5_Original ==
    \A i \in DOMAIN calls :
        calls[i].group \in NonRoot =>
            \A j \in DOMAIN BoundBy(i) :
                RequestChain(BoundBy(i)[j]) = calls[i].middlewares

\* C5 amended: a request to a route registered under a non-root group G passes
\* through the engine's top-level chain (the middlewares given to ROOT calls)
\* followed by exactly the middlewares given to the call that bound the route;
\* a middleware passed only to calls for another non-root group H is not in
\* that chain.
C5_GroupIsolation ==
    \A i \in DOMAIN calls :
        calls[i].group \in NonRoot =>
            \A j \in DOMAIN BoundBy(i) :
                /\ RequestChain(BoundBy(i)[j]) =
                       CumChain(ROOT, Len(calls)) \o calls[i].middlewares
                /\ \A m \in Range(RequestChain(BoundBy(i)[j])) :
                      \E k \in DOMAIN calls :
                          /\ calls[k].group \in {ROOT, calls[i].group}
                          /\ m \in Range(calls[k].middlewares)

\* Two non-root groups, each with its own middleware and its own route
C5_Witness ==
    /\ Len(calls) = 2
    /\ calls[1].group = V1
    /\ calls[2].group = V2
    /\ calls[1].middlewares = <<"mA">>
    /\ calls[2].middlewares = <<"mB">>
    /\ Len(BoundBy(1)) >= 1
    /\ Len(BoundBy(2)) >= 1

----------------------------------------------------------------------------
(* C6 *)

LastCall == Last(calls)

\* C6 as stated: after calls on the same group with lists A then B the scope
\* of the group carries A followed by B, and the routes of the second call are
\* wrapped by it.
C6_Original ==
    (calls # <<>> /\ LastCall.group \in Kinds) =>
        /\ ScopeChain = CumChain(LastCall.group, Len(calls))
        /\ \A j \in DOMAIN BoundBy(Len(calls)) :
              (IF LastCall.group = ROOT THEN echo.middleware
               ELSE BoundBy(Len(calls))[j].Middleware) =
                  CumChain(LastCall.group, Len(calls))

\* C6 amended: middleware application is cumulative on the top-level scope
\* only.  After calls on ROOT the engine's chain is the lists of all ROOT
\* calls in call order.  A call on a non-root group G resolves a new scope
\* with an empty chain: after it the scope carries that call's list alone, the
\* routes it bound are wrapped by that list alone, and the routes bound by an
\* earlier call on G stay wrapped by the earlier call's list.
C6_CumulativeOnRootOnly ==
    /\ echo.middleware = CumChain(ROOT, Len(calls))
    /\ (calls # <<>> /\ LastCall.group \in NonRoot) =>
            ScopeChain = LastCall.middlewares
    /\ \A i \in DOMAIN calls :
          calls[i].group \in NonRoot =>
              \A j \in DOMAIN BoundBy(i) :
                  BoundBy(i)[j].Middleware = calls[i].middlewares

\* Two calls on the same non-root group with different lists, both binding
C6_Witness ==
    /\ Len(calls) = 2
    /\ calls[1].group = V1
    /\ calls[2].group = V1
    /\ calls[1].middlewares = <<"mA">>
    /\ calls[2].middlewares = <<"mB">>
    /\ Len(BoundBy(1)) >= 1
    /\ Len(BoundBy(2)) >= 1
    /\ BoundBy(2)[1].Middleware = <<"mB">>

----------------------------------------------------------------------------
(* C7 *)

\* C7: the middlewares of one call are applied to the resolved scope in the
\* order given and before any route of the call is bound: every route a call
\* on a group binds, the first included, is wrapped by the whole list in
\* order, and a call on ROOT extends the engine's chain by the list in order.
C7_OrderAndBeforeRoutes ==
    \A i \in DOMAIN calls :
        calls[i].group \in Kinds =>
            /\ calls[i].group # ROOT =>
                  \A j \in DOMAIN BoundBy(i) :
                      BoundBy(i)[j].Middleware = calls[i].middlewares
            /\ calls[i].group = ROOT =>
                  HasPrefix(echo.middleware, calls[i].before \o calls[i].middlewares)
            /\ \A j \in DOMAIN BoundBy(i) :
                  \E a, b \in 0..Len(RequestChain(BoundBy(i)[j])) :
                      SubSeq(RequestChain(BoundBy(i)[j]), a + 1, b) = calls[i].middlewares

\* A call with two middlewares on a group and one on ROOT, both binding routes
C7_Witness ==
    /\ Len(calls) = 2
    /\ calls[1].group = ROOT
    /\ calls[2].group = DOCS
    /\ calls[1].middlewares = <<"mA", "mB">>
    /\ calls[2].middlewares = <<"mA", "mB">>
    /\ Len(BoundBy(1)) >= 1
    /\ Len(BoundBy(2)) >= 1

----------------------------------------------------------------------------
(* C8 *)

IsAddRouterFxStep == out'.op = "AddRouterFx" /\ rr' # rr
IsSetPathFixedStep == out'.op = "SetPathFixed" /\ out' # out

AllWhite(s) == \A i \in DOMAIN s : s[i] \in WhiteSpace

\* t is s without its leading and trailing white space, and nothing else removed
IsTrimOf(t, s) ==
    /\ \E a, b \in 0..Len(s) :
          /\ a <= b
          /\ t = SubSeq(s, a + 1, b)
          /\ AllWhite(SubSeq(s, 1, a))
          /\ AllWhite(SubSeq(s, b + 1, Len(s)))
    /\ t # <<>> => ~(Head(t) \in WhiteSpace) /\ ~(Last(t) \in WhiteSpace)

\* C8: AddRouterFx(suffix, methods) appends exactly one entry; its path is the
\* stored fixed prefix, unmodified, followed by the suffix without its leading
\* and trailing white space, and the fixed prefix alone for the empty suffix.
C8_AddRouterFxPath ==
    [][IsAddRouterFxStep =>
          /\ Len(rr'.Routers) = Len(rr.Routers) + 1
          /\ SubSeq(rr'.Routers, 1, Len(rr.Routers)) = rr.Routers
          /\ rr'.PathFixed = rr.PathFixed
          /\ HasPrefix(Last(rr'.Routers).Path, rr.PathFixed)
          /\ IsTrimOf(SubSeq(Last(rr'.Routers).Path, Len(rr.PathFixed) + 1,
                             Len(Last(rr'.Routers).Path)),
                      out'.arg)
          /\ out'.arg = <<>> => Last(rr'.Routers).Path = rr.PathFixed
          /\ (rr.PathFixed = P_a /\ out'.arg = P_t) =>
                Last(rr'.Routers).Path = <<"/", "a", "/", "t">>]_vars

\* A suffix with white space around it appended under a non-empty prefix
C8_Witness ==
    /\ out.op = "AddRouterFx"
    /\ out.arg = <<" ">> \o P_t \o <<"\t">>
    /\ rr.PathFixed = P_a
    /\ Last(rr.Routers).Path = P_a \o P_t

----------------------------------------------------------------------------
(* C9 *)

\* C9: no operation rewrites an entry already appended; SetPathFixed changes
\* the stored prefix and nothing else; a prefixed append uses the prefix
\* stored when it is made.
C9_SetPathFixedFrame ==
    [][/\ Len(rr'.Routers) >= Len(rr.Routers)
       /\ SubSeq(rr'.Routers, 1, Len(rr.Routers)) = rr.Routers
       /\ IsSetPathFixedStep =>
              /\ rr'.Routers = rr.Routers
              /\ rr'.PathFixed = out'.arg
       /\ IsAddRouterFxStep =>
              HasPrefix(Last(rr'.Routers).Path, rr.PathFixed)]_vars

\* The prefix was changed after a prefixed append under "/a": the entry keeps
\* its path
C9_Witness ==
    /\ out.op = "SetPathFixed"
    /\ rr.PathFixed = <<" ">> \o P_b \o <<" ">>
    /\ Len(rr.Routers) = 2
    /\ rr.Routers[1].Path = P_a \o P_t
    /\ rr.Routers[2].Path = P_t

----------------------------------------------------------------------------
(* C10 *)

\* C10 as stated: String of every valid non-root group is non-empty and no
\* two valid groups share a name; String of ROOT is the empty string.
C10_Original ==
    (out.op = "String" /\ out.arg[1] \in Kinds) =>
        /\ out.arg[1] # ROOT =>
              /\ out.val # <<>>
              /\ \A j \in Kinds \ {out.arg[1]} : KindString(j) # out.val
        /\ out.arg[1] = ROOT => out.val = <<>>

\* C10 amended: String of every valid group, ROOT included, is a non-empty
\* name and no two valid groups share a name; String of ROOT is "root", not
\* the empty string (RegisterRouters does not use it: ROOT registers on the
\* engine itself).
C10_NamesDistinct ==
    (out.op = "String" /\ out.arg[1] \in Kinds) =>
        /\ out.val # Panic
        /\ out.val # <<>>
        /\ \A j \in Kinds \ {out.arg[1]} : KindString(j) # out.val
        /\ out.arg[1] = ROOT => out.val = Str_root

C10_Witness ==
    /\ out.op = "String"
    /\ out.arg[1] = ROOT
    /\ out.val = Str_root

----------------------------------------------------------------------------
(* C11 *)

\* C11: Kind.String applied to a group outside ROOT..DOCS fails with the
\* invalid-group error returned to the caller; it returns no name and does not
\* answer as for ROOT.
C11_Original ==
    (out.op = "String" /\ ~(out.arg[1] \in Kinds)) =>
        /\ out.val = ErrInvalidGroup
        /\ out.val # Panic
        /\ \A k \in Kinds : out.val # KindNames[k + 1]

----------------------------------------------------------------------------
(* C12 *)

\* The prefix occurs in the path at some position
Occurs(fixed, path) ==
    \E a \in 0..Len(path) :
        /\ a + Len(fixed) <= Len(path)
        /\ \A k \in 1..Len(fixed) : path[a + k] = fixed[k]

\* The indices of the entries whose path has the stored prefix somewhere in it
Matching == {i \in DOMAIN rr.Routers : Occurs(rr.PathFixed, rr.Routers[i].Path)}

\* C12: GetRoutersFx returns, in insertion order, exactly the entries whose
\* path contains the stored fixed prefix at any position, however they were
\* appended; with the empty prefix it returns every entry.
C12_GetRoutersFx ==
    out.op = "GetRoutersFx" =>
        /\ Len(out.val) = Cardinality(Matching)
        /\ \A k \in DOMAIN out.val :
              \E i \in Matching :
                  /\ out.val[k] = rr.Routers[i]
                  /\ Cardinality({j \in Matching : j < i}) = k - 1
        /\ rr.PathFixed = <<>> => out.val = rr.Routers

\* Prefix "/a": the entry "x/a" (prefix inside the path) is returned, the
\* entry "/t" is not
C12_Witness ==
    /\ out.op = "GetRoutersFx"
    /\ rr.PathFixed = P_a
    /\ Len(rr.Routers) = 2
    /\ rr.Routers[1].Path = P_t
    /\ rr.Routers[2].Path = <<"x">> \o P_a
    /\ Len(out.val) = 1
    /\ out.val[1].Path = <<"x">> \o P_a

----------------------------------------------------------------------------
(* C13 *)

IsAddRouterStep == out'.op = "AddRouter" /\ rr' # rr

\* What the holder of the slice returned earlier reads from it
SliceView(sl) == SubSeq(sl.array, 1, sl.len)

\* C13: every AddRouter or AddRouterFx call adds one entry at the end and
\* leaves the earlier entries in place, and nothing else changes the entries,
\* so GetAllRouters returns one entry per append call in call order; a plain
\* append stores its path as given; the sequence a GetAllRouters call returned
\* reads the same after later appends.
C13_GetAllRouters ==
    [][/\ (IsAddRouterStep \/ IsAddRouterFxStep) =>
              /\ Len(rr'.Routers) = Len(rr.Routers) + 1
              /\ SubSeq(rr'.Routers, 1, Len(rr.Routers)) = rr.Routers
              /\ snap.taken => SliceView(snap') = SliceView(snap)
       /\ ~(IsAddRouterStep \/ IsAddRouterFxStep) => rr'.Routers = rr.Routers
       /\ IsAddRouterStep => Last(rr'.Routers).Path = out'.arg
       /\ out'.op = "GetAllRouters" =>
              /\ out'.val = rr'.Routers
              /\ SliceView(snap') = rr'.Routers]_vars

\* A slice returned when there was one entry, read after a second entry was
\* appended into the same array: it still has the one entry; the second entry
\* is a plain append of a path with white space under a prefix
C13_Witness ==
    /\ out.op = "AddRouter"
    /\ out.arg = <<" ">> \o P_a \o <<" ">>
    /\ rr.PathFixed = P_a
    /\ Len(rr.Routers) = 2
    /\ rr.Routers[2].Path = <<" ">> \o P_a \o <<" ">>
    /\ snap.taken
    /\ snap.shared
    /\ snap.len = 1
    /\ Len(snap.array) = 2
    /\ SliceView(snap) = <<rr.Routers[1]>>

----------------------------------------------------------------------------
(* C14 *)

\* C14: a RegisterRouters call, whether it succeeds or fails, leaves the
\* fixed prefix and the entries (paths and method maps) of the spec it was
\* given as they were.
C14_SpecOnlyRead ==
    [][IsRegisterStep => rr' = rr]_vars

\* The same spec registered under V1 and then under V2, with the same entries
\* bound both times
C14_Witness ==
    /\ Len(calls) = 2
    /\ calls[1].group = V1
    /\ calls[2].group = V2
    /\ calls[1].err = Nil
    /\ calls[2].err = Nil
    /\ rr.PathFixed = P_a
    /\ Len(rr.Routers) = 1
    /\ Len(BoundBy(1)) = 2
    /\ Len(BoundBy(2)) = 2

----------------------------------------------------------------------------
(* C15 *)

IsBound(routes, method, path) ==
    \E j \in DOMAIN routes : routes[j].Method = method /\ routes[j].Path = path

\* C15: no step removes a bound (method, effective path) pair, whatever the
\* group and the outcome of a register call; a call on a valid group whose
\* keys are all supported returns nil and binds all its pairs also when their
\* method and path are bound already.
C15_AppendOnly ==
    [][/\ \A j \in DOMAIN echo.routes :
              IsBound(echo'.routes, echo.routes[j].Method, echo.routes[j].Path)
       /\ Len(echo'.routes) >= Len(echo.routes)
       /\ (IsRegisterStep /\ Last(calls').group \in Kinds
                          /\ AllKeys \subseteq HTTPMethods) =>
              /\ ret' = Nil
              /\ Len(echo'.routes) = Len(echo.routes) + SumPairs(Len(rr.Routers))]_vars

\* The same entry registered twice under the same group: both calls returned
\* nil and the pair is bound
C15_Witness ==
    /\ Len(calls) = 2
    /\ calls[1].group = V1
    /\ calls[2].group = V1
    /\ calls[1].err = Nil
    /\ calls[2].err = Nil
    /\ Len(echo.routes) = 2
    /\ echo.routes[1].Method = echo.routes[2].Method
    /\ echo.routes[1].Path = echo.routes[2].Path

----------------------------------------------------------------------------
(* C16 *)

\* The Echo as the i-th call found it
EchoBefore(i) ==
    [middleware |-> calls[i].before, routes |-> SubSeq(echo.routes, 1, calls[i].lo)]

\* The i-th call made again from the same state with the maps iterated in
\* the order o
Again(i, o) ==
    ServerRegisterRouters(EchoBefore(i), calls[i].group, rr, calls[i].middlewares, o)

SameOutcome(i, o) ==
    /\ Again(i, o).err = calls[i].err
    /\ Range(Again(i, o).echo.routes) = Range(SubSeq(echo.routes, 1, calls[i].hi))

\* C16 as stated: whatever the spec, a register call returns the same result
\* and leaves the same set of bound routes under every iteration order of the
\* entries' method maps.
C16_Original ==
    \A i \in DOMAIN calls : \A o \in Orders(rr.Routers) : SameOutcome(i, o)

\* C16 amended: when every method key of the spec is supported (or the group
\* is invalid), the call returns the same result and leaves the same set of
\* bound routes under every iteration order; when the spec has an unsupported
\* key, the call returns an unsupported-method error under every order, but
\* which routes were bound before it depends on the order.
C16_OrderIrrelevantWhenSupported ==
    \A i \in DOMAIN calls : \A o \in Orders(rr.Routers) :
        /\ (AllKeys \subseteq HTTPMethods \/ ~(calls[i].group \in Kinds)) =>
              SameOutcome(i, o)
        /\ (calls[i].group \in Kinds /\ ~(AllKeys \subseteq HTTPMethods)) =>
              /\ calls[i].err # Nil
              /\ \E k \in AllKeys \ HTTPMethods :
                    Again(i, o).err = ErrUnsupportedMethod(k)

\* A two-method entry bound with POST before GET: another order was possible
C16_Witness ==
    /\ Len(calls) = 1
    /\ calls[1].group = V2
    /\ calls[1].err = Nil
    /\ Cardinality(Orders(rr.Routers)) = 2
    /\ Len(BoundBy(1)) = 2
    /\ BoundBy(1)[1].Method = "POST"
    /\ BoundBy(1)[2].Method = "GET"

----------------------------------------------------------------------------
(* C17 *)

IsStartStep == Len(srv'.routines) = Len(srv.routines) + 1

\* The goroutine i of Start sees echo.Start return in this step
Returns(i) ==
    /\ srv.routines[i].status = "serving"
    /\ srv'.routines[i].status = "done"

\* C17: Start returns while serving runs concurrently and reports nothing
\* (the new goroutine is serving, nothing is logged, the process lives);
\* when serving ends with the server-closed error, which happens only after
\* Close or Shutdown, no fault is raised; when it ends with any other error,
\* that error is logged as fatal through the engine's logger and the process
\* ends; nothing else writes to the logger.
C17_StartNonBlocking ==
    [][/\ IsStartStep =>
            /\ Last(srv'.routines) =
                  [addr |-> StartHost(srv), status |-> "serving", err |-> Nil]
            /\ SubSeq(srv'.routines, 1, Len(srv.routines)) = srv.routines
            /\ srv'.log = srv.log
            /\ srv'.exited = srv.exited
       /\ \A i \in DOMAIN srv.routines :
            Returns(i) =>
               IF srv'.routines[i].err = ErrServerClosed
               THEN /\ srv.closed
                    /\ srv'.log = srv.log
                    /\ ~srv'.exited
               ELSE /\ srv'.log = Append(srv.log, <<"FATAL", srv'.routines[i].err>>)
                    /\ srv'.exited
       /\ srv'.log # srv.log =>
            \E i \in DOMAIN srv.routines :
               Returns(i) /\ srv'.routines[i].err # ErrServerClosed
      ]_vars

\* Two Starts returned; after a Close the first goroutine ended with the
\* server-closed error without a fault while the second is still serving
C17_Witness ==
    /\ Len(srv.routines) = 2
    /\ srv.routines[1].status = "done"
    /\ srv.routines[1].err = ErrServerClosed
    /\ srv.routines[2].status = "serving"
    /\ srv.closed
    /\ srv.log = <<>>
    /\ ~srv.exited

----------------------------------------------------------------------------
(* C18 *)

\* The i-th call was made for a valid group and failed on an unsupported key
FailedOnMethod(i) ==
    /\ calls[i].group \in Kinds
    /\ \E k \in AllKeys \ HTTPMethods : calls[i].err = ErrUnsupportedMethod(k)

\* C18: when a register call on a valid group fails with an unsupported-method
\* error, the middlewares passed to it were applied to the resolved scope
\* before the failure and stay applied: for ROOT they extend the Echo's chain
\* found by the call, remain there through later calls and wrap every route;
\* for a non-root group the scope the call resolved carries them and the
\* routes bound before the failure are wrapped by them.
C18_NoRollback ==
    \A i \in DOMAIN calls :
        FailedOnMethod(i) =>
            IF calls[i].group = ROOT
            THEN /\ HasPrefix(echo.middleware, calls[i].before \o calls[i].middlewares)
                 /\ \A r \in Range(echo.routes) :
                       Range(calls[i].middlewares) \subseteq Range(RequestChain(r))
            ELSE /\ i = Len(calls) =>
                       /\ scope.type = "Group"
                       /\ scope.middleware = calls[i].middlewares
                 /\ \A n \in DOMAIN BoundBy(i) :
                       BoundBy(i)[n].Middleware = calls[i].middlewares

\* A ROOT call with a middleware failed after binding a route; a later call
\* for a group bound a route whose requests still pass that middleware
C18_Witness ==
    /\ Len(calls) = 2
    /\ FailedOnMethod(1)
    /\ calls[1].group = ROOT
    /\ calls[1].middlewares = <<"mA">>
    /\ calls[1].hi > calls[1].lo
    /\ calls[2].group = V1
    /\ calls[2].middlewares = <<"mB">>
    /\ Len(BoundBy(2)) > 0
    /\ RequestChain(BoundBy(2)[1]) = <<"mA", "mB">>

----------------------------------------------------------------------------
(* C19 *)

\* The routes bound by the calls made for ROOT
RootRoutes ==
    UNION {Range(BoundBy(i)) : i \in {j \in DOMAIN calls : calls[j].group = ROOT}}

\* C19: every middleware passed to a register call under ROOT runs on the
\* requests to every route of the Echo, bound under ROOT or under a group,
\* before that call or after it; and the requests to a route bound under ROOT
\* pass exactly the middlewares passed to the ROOT calls, in call order, so a
\* middleware passed to a group's call never runs on them.
C19_RootMiddlewareGlobal ==
    /\ \A i \in DOMAIN calls :
          calls[i].group = ROOT =>
             \A r \in Range(echo.routes) :
                Range(calls[i].middlewares) \subseteq Range(RequestChain(r))
    /\ \A r \in RootRoutes :
          /\ r.Middleware = <<>>
          /\ RequestChain(r) = CumChain(ROOT, Len(calls))

\* A group call with mB bound a route, then a ROOT call with mA bound one:
\* the earlier group route passes mA then mB, the ROOT route passes mA alone
C19_Witness ==
    /\ Len(calls) = 2
    /\ calls[1].group = V1
    /\ calls[1].middlewares = <<"mB">>
    /\ calls[2].group = ROOT
    /\ calls[2].middlewares = <<"mA">>
    /\ Len(BoundBy(1)) > 0
    /\ Len(BoundBy(2)) > 0
    /\ RequestChain(BoundBy(1)[1]) = <<"mA", "mB">>
    /\ RequestChain(BoundBy(2)[1]) = <<"mA">>

====
